---- MODULE Spec2Model ----
(***************************************************************************)
(* git-credential-keepassxc: one invocation of the helper (src/main.rs).   *)
(* The state is the configuration file on disk, the in-memory Config, the  *)
(* position of the running command, the requests sent to KeePassXC (the    *)
(* counterpart) and the bookkeeping of associated_databases.  The          *)
(* counterpart's replies, the file system and the caller's identity are    *)
(* the environment: every reply is a nondeterministic choice.              *)
(***************************************************************************)
EXTENDS Integers, Sequences, FiniteSets, TLC

VARIABLES
    strict,          \* cfg!(feature = "strict-caller") of this build
    cmd,             \* the subcommand of this invocation
    unlock_options,  \* Option<UnlockOptions>: <<>> or <<[max_retries, interval]>>
    current_caller,  \* what CurrentCaller::new() yields: <<>> (Err) or <<identity>>
    disk,            \* the configuration file: [state, content]
    disk0,           \* the configuration file as the invocation found it
    pc,              \* position of the running command
    outcome,         \* "running", "Ok", or the error the invocation ends with
    config,          \* the in-memory Config (config_file)
    read_result,     \* "none", "Ok" or "Err": what Config::read_from returned
    verified,        \* the Result of verify_caller, NotCalled before it ran
    sent,            \* requests sent so far: set of <<action, allow_trigger_unlock>>
    writes,          \* number of write_to calls that replaced the file
    idx,             \* associated_databases: index of the database being filtered
    remain_retries,  \* associated_databases: let mut remain_retries
    success,         \* associated_databases: let mut success
    authenticated,   \* associated_databases: databases kept by the filter so far
    assoc_result,    \* "none", "Ok" or "Err": what associated_databases returned
    taCount,         \* per database id: TestAssociate requests sent
    lastTA,          \* per database id: reply to the most recent TestAssociate
    probeLog,        \* per database id: replies to the GetDatabaseHash probes, in order
    sleepCount,      \* per database id: thread::sleep calls
    lastEvent,       \* per database id: the last thing done for it
    git_req,         \* the credential request read from stdin: [username, password]
    args,            \* the entry filters and output options of get, totp and store
    gl_resp,         \* the entries of the GetLogins response, as received
    login_entries,   \* the entries left after filtering
    sl_req,          \* store: <<>> or <<the SetLoginRequest built>>
    output,          \* <<>> or <<what was written to stdout>>
    gt_resp,         \* the replies to the GetTotp requests, in the order sent
    session,         \* start_session: [exchanges, client_id, host_pubkey]
    race,            \* two invocations sharing the configuration file (SpecRace)
    encrypt_arg,     \* --encrypt of configure and caller, the profile of encrypt
    token,           \* the hardware token plugged in when the invocation starts
    history          \* the invocations that ended before this one (SpecStore)

vars == <<strict, cmd, unlock_options, current_caller, disk, disk0, pc, outcome, config,
          read_result, verified, sent, writes, idx, remain_retries, success,
          authenticated, assoc_result, taCount, lastTA, probeLog, sleepCount,
          lastEvent, git_req, args, gl_resp, login_entries, sl_req, output,
          gt_resp, session, race, encrypt_arg, token, history>>

envVars == <<strict, cmd, unlock_options, current_caller, disk0, race, encrypt_arg,
            token, history>>
assocVars == <<idx, remain_retries, success, authenticated, assoc_result,
               taCount, lastTA, probeLog, sleepCount, lastEvent>>
getVars == <<git_req, args, gl_resp, login_entries, sl_req, output, gt_resp>>

----------------------------------------------------------------------------
(* Bounds of the model *)

\* largest --unlock max_retries drawn
MaxRetries == 3
\* GetDatabaseHash probes explored per database (the unlimited mode never stops)
MaxPolls == 4
\* invocations remembered in SpecStore; one more runs after them
MaxInvocations == 2

----------------------------------------------------------------------------
(* Option and Result *)

None == <<>>
Some(v) == <<v>>
is_some(o) == Len(o) > 0
is_none(o) == Len(o) = 0
unwrap(o) == o[1]

Ok(v) == [ok |-> TRUE, val |-> v, err |-> ""]
Err(e) == [ok |-> FALSE, val |-> None, err |-> e]
NotCalled == [ok |-> FALSE, val |-> None, err |-> "not called"]

\* slice::contains
Contains(seq, x) == \E i \in 1..Len(seq) : seq[i] = x

----------------------------------------------------------------------------
(* Inputs *)

Commands == {"configure", "encrypt", "decrypt", "caller", "get", "totp", "store",
             "lock", "groups", "generate-password"}

Intervals == {10}

UnlockInputs ==
    {None} \cup {Some([max_retries |-> m, interval |-> i]) :
                    m \in 0..MaxRetries, i \in Intervals}

DatabasePool == << [id |-> "db1", group |-> "Git"],
                   [id |-> "db2", group |-> "Work"] >>
DbIds == {DatabasePool[i].id : i \in 1..Len(DatabasePool)}
DatabaseLists == {SubSeq(DatabasePool, 1, n) : n \in 0..Len(DatabasePool)}

\* the path a path resolves to (symbolic links followed)
Canonical(p) == IF p = "/usr/local/bin/git" THEN "/usr/bin/git" ELSE p

Identities ==
    { [path |-> "/usr/local/bin/git", uid |-> 1000, gid |-> 1000],
      [path |-> "/usr/bin/git", uid |-> 0, gid |-> 0],
      [path |-> "/tmp/evil", uid |-> 1000, gid |-> 1000] }

GitIdentity == [path |-> "/usr/local/bin/git", uid |-> 1000, gid |-> 1000]

CallerPool ==
    { [path |-> "/usr/bin/git", uid |-> {}, gid |-> {}, canonicalize |-> TRUE],
      [path |-> "/usr/bin/git", uid |-> {}, gid |-> {}, canonicalize |-> FALSE],
      [path |-> "/usr/local/bin/git", uid |-> {1000}, gid |-> {1000}, canonicalize |-> FALSE],
      [path |-> "/usr/local/bin/git", uid |-> {0}, gid |-> {}, canonicalize |-> FALSE] }

GitCaller == [path |-> "/usr/bin/git", uid |-> {}, gid |-> {}, canonicalize |-> TRUE]
RootCaller == [path |-> "/usr/local/bin/git", uid |-> {0}, gid |-> {}, canonicalize |-> FALSE]

\* caller lists of the command runs
CallerLists == { <<>>, <<GitCaller>>, <<RootCaller>> }
\* caller lists of the runs of verify_caller alone
AllCallerLists ==
    { <<>> } \cup { <<c>> : c \in CallerPool }
             \cup { <<c, d>> : c \in CallerPool, d \in CallerPool }

----------------------------------------------------------------------------
(* Config (mod config; its code is not part of src/) *)

\* an item of a section as it is stored when encrypted, and the item it holds
Sealed(x) == [sealed |-> x]
IsSealed(x) == DOMAIN x = {"sealed"}
Open(x) == IF IsSealed(x) THEN x.sealed ELSE x
SealAll(items) == [i \in 1..Len(items) |-> Sealed(Open(items[i]))]
OpenAll(items) == [i \in 1..Len(items) |-> Open(items[i])]

\* a Config with the given databases and callers, nothing encrypted and no
\* encryption profile registered
ConfigOf(databases, callers) ==
    [databases |-> databases, callers |-> callers, encryptions |-> <<>>]

ConfigNew == ConfigOf(<<>>, <<>>)
count_callers(c) == Len(c.callers)
count_databases(c) == Len(c.databases)
get_callers(c) == OpenAll(c.callers)
get_databases(c) == OpenAll(c.databases)
count_encryptions(c) == Len(c.encryptions)
\* the items of a section that are stored encrypted
count_encrypted_databases(c) == Len(SelectSeq(c.databases, IsSealed))
count_encrypted_callers(c) == Len(SelectSeq(c.callers, IsSealed))

\* the encryption profiles a command can be given: --encrypt absent, given
\* without a profile, or given with one
EncryptArgs == {None, Some(""), Some("p1"), Some("p2")}

\* the hardware tokens that can be plugged in: none, or the key source of the
\* profile of that name
Tokens == {"none", "p1", "p2"}

\* Config::read_from: Ok(content) when the file exists and can be read and,
\* if items are encrypted, some registered profile resolves a key; Err
\* otherwise
read_from(d, plugged) ==
    IF d.state # "ok" THEN Err("ReadError")
    ELSE IF /\ count_encrypted_databases(d.content)
                 + count_encrypted_callers(d.content) > 0
            /\ ~Contains(d.content.encryptions, plugged)
    THEN Err("DecryptionFailedError")
    ELSE Ok(d.content)

\* CurrentCaller::matches
matches(cur, c) ==
    /\ IF c.canonicalize
       THEN Canonical(c.path) = Canonical(cur.path)
       ELSE c.path = cur.path
    /\ c.uid \subseteq {cur.uid}
    /\ c.gid \subseteq {cur.gid}

ConfigInputs ==
    { ConfigOf(d, c) : d \in DatabaseLists, c \in CallerLists }

\* files protected by the encryption profile "p1": the databases encrypted,
\* the callers encrypted or not
EncryptedInputs ==
    { [ConfigOf(SubSeq(DatabasePool, 1, 1), <<GitCaller>>) EXCEPT
          !.encryptions = <<"p1">>,
          !.databases = SealAll(@),
          !.callers = c] : c \in { <<GitCaller>>, <<Sealed(GitCaller)>> } }

DiskInputs ==
    { [state |-> "absent", content |-> ConfigNew] }
    \cup { [state |-> "ok", content |-> c] : c \in ConfigInputs \cup EncryptedInputs }
    \cup { [state |-> "unreadable", content |-> c] :
              c \in { x \in ConfigInputs : Len(x.databases) = 1 } }

----------------------------------------------------------------------------
(* verify_caller *)

SelectMatching(cur, callers) ==
    SelectSeq(callers, LAMBDA c : matches(cur, c))

\* faulty variant: the skip condition written with && in place of ||
verify_caller_BothNeeded(cfg, strictCaller, cur) ==
    IF count_callers(cfg) = 0 /\ (~strictCaller /\ count_databases(cfg) = 0)
    THEN Ok(None)
    ELSE IF is_none(cur)
    THEN Err("CurrentCallerError")
    ELSE IF Len(SelectMatching(unwrap(cur), get_callers(cfg))) = 0
    THEN Err("CallerNotAllowed")
    ELSE Ok(Some(unwrap(cur)))

\* faulty variant: the relaxed build skips verification whatever is configured
verify_caller_RelaxedSkips(cfg, strictCaller, cur) ==
    IF ~strictCaller \/ (count_callers(cfg) = 0 /\ count_databases(cfg) = 0)
    THEN Ok(None)
    ELSE IF is_none(cur)
    THEN Err("CurrentCallerError")
    ELSE IF Len(SelectMatching(unwrap(cur), get_callers(cfg))) = 0
    THEN Err("CallerNotAllowed")
    ELSE Ok(Some(unwrap(cur)))

verify_caller(cfg, strictCaller, cur) ==
    IF count_callers(cfg) = 0 /\ (~strictCaller \/ count_databases(cfg) = 0)
    THEN Ok(None)
    ELSE IF is_none(cur)
    THEN Err("CurrentCallerError")
    ELSE IF Len(SelectMatching(unwrap(cur), get_callers(cfg))) = 0
    THEN Err("CallerNotAllowed")
    ELSE Ok(Some(unwrap(cur)))

----------------------------------------------------------------------------
(* Credential requests, entry filters and login entries *)

NoRequest == [username |-> None, password |-> None]
GitRequests ==
    { [username |-> u, password |-> p] :
        u \in {None, Some("alice")}, p \in {None, Some("pw1")} }

\* EntryFilters and the output options of a get, totp or store invocation
NoArgs == [kph |-> TRUE, groups |-> <<>>, git_groups |-> FALSE, raw |-> FALSE,
           mode |-> "PasswordOnly"]
GroupFilters == { <<>>, <<"Git">> }
Modes(c) == IF c = "totp" THEN {"TotpOnly"}
            ELSE IF c = "get" THEN {"PasswordOnly", "PasswordAndTotp"}
            ELSE {"PasswordOnly"}
\* main refuses --raw together with filter options; raw with
\* PasswordAndTotp is refused by the command line
ArgInputs(c) ==
    { a \in [kph : BOOLEAN, groups : GroupFilters, git_groups : BOOLEAN,
             raw : BOOLEAN, mode : Modes(c)] :
        a.raw => /\ a.kph /\ a.groups = <<>> /\ ~a.git_groups
                 /\ a.mode # "PasswordAndTotp"
                 /\ c # "store" }

KphFalse == <<"KPH: git", "false">>
KphTrue == <<"KPH: git", "true">>

EntryPool ==
    { [uuid |-> "u1", login |-> "alice", password |-> "pw1", group |-> Some("Git"),
       expired |-> None, string_fields |-> None],
      [uuid |-> "u2", login |-> "alice", password |-> "pw2", group |-> Some("Other"),
       expired |-> Some(FALSE), string_fields |-> Some(<<KphFalse>>)],
      [uuid |-> "u3", login |-> "bob", password |-> "pw1", group |-> None,
       expired |-> Some(TRUE), string_fields |-> Some(<<KphTrue>>)],
      [uuid |-> "u4", login |-> "alice", password |-> "pw1", group |-> Some("Work"),
       expired |-> Some(TRUE), string_fields |-> None] }

EntryLists ==
    { <<>> } \cup { <<e>> : e \in EntryPool }
             \cup { p \in { <<e, f>> : e \in EntryPool, f \in EntryPool } :
                        p[1] # p[2] }

----------------------------------------------------------------------------
(* Initial state *)

ZeroPerDb == [d \in DbIds |-> 0]

\* no second invocation
NoRace == <<>>

\* no invocation ended before this one
NoHistory == <<>>

\* some item of the store is encrypted
Protected(cfg) == count_encrypted_databases(cfg) + count_encrypted_callers(cfg) > 0

\* before start_session
NoSession == [exchanges |-> 0, client_id |-> None, host_pubkey |-> None]

InitRun ==
    /\ outcome = "running"
    /\ read_result = "none"
    /\ verified = NotCalled
    /\ sent = {}
    /\ writes = 0
    /\ idx = 0
    /\ remain_retries = 0
    /\ success = FALSE
    /\ authenticated = <<>>
    /\ assoc_result = "none"
    /\ taCount = ZeroPerDb
    /\ lastTA = [d \in DbIds |-> "none"]
    /\ probeLog = [d \in DbIds |-> <<>>]
    /\ sleepCount = ZeroPerDb
    /\ lastEvent = [d \in DbIds |-> "none"]
    /\ git_req = NoRequest
    /\ args = NoArgs
    /\ gl_resp = <<>>
    /\ login_entries = <<>>
    /\ sl_req = None
    /\ output = None
    /\ gt_resp = <<>>
    /\ session = NoSession

Init ==
    /\ strict \in BOOLEAN
    /\ cmd \in Commands
    /\ unlock_options \in UnlockInputs
    /\ current_caller \in {None, Some(GitIdentity)}
    /\ disk \in DiskInputs
    /\ disk0 = disk
    /\ config = ConfigNew
    /\ pc = "read"
    /\ race = NoRace
    /\ encrypt_arg \in (IF cmd \in {"configure", "caller", "encrypt"}
                         THEN EncryptArgs ELSE {None})
    /\ token \in (IF Protected(disk.content) THEN Tokens ELSE {"none"})
    /\ history = NoHistory
    /\ InitRun

----------------------------------------------------------------------------
(* Ending an invocation *)

Finish(o) ==
    /\ pc' = "done"
    /\ outcome' = o

Send(req, trigger) == sent' = sent \cup {<<req, trigger>>}

----------------------------------------------------------------------------
(* Reading the configuration and verifying the caller *)

\* where a command goes once its configuration is loaded and the caller passed
AfterVerify(c, cfg) ==
    CASE c = "configure" ->
            IF count_callers(cfg) = 0 /\ strict THEN "prompt" ELSE "session"
      [] c = "caller" -> "caller"
      [] c = "encrypt" -> "encrypt"
      [] c = "decrypt" -> "decrypt"
      [] c \in {"get", "totp", "store"} -> "stdin"
      [] OTHER -> "session"

\* configure and caller: "read existing or create new config"
ReadOrNew ==
    /\ pc = "read"
    /\ cmd \in {"configure", "caller"}
    /\ LET r == read_from(disk, token) IN
        IF r.ok
        THEN /\ config' = r.val
             /\ read_result' = "Ok"
             /\ pc' = "verify"
        ELSE /\ config' = ConfigNew
             /\ read_result' = "Err"
             /\ pc' = AfterVerify(cmd, ConfigNew)
    /\ UNCHANGED <<envVars, session, disk, outcome, verified, sent, writes, assocVars, getVars>>

\* every other command: Config::read_from(..)?
ReadOrFail ==
    /\ pc = "read"
    /\ cmd \notin {"configure", "caller"}
    /\ LET r == read_from(disk, token) IN
        IF r.ok
        THEN /\ config' = r.val
             /\ read_result' = "Ok"
             /\ pc' = "verify"
             /\ UNCHANGED outcome
        ELSE /\ read_result' = "Err"
             /\ Finish(r.err)
             /\ UNCHANGED config
    /\ UNCHANGED <<envVars, session, disk, verified, sent, writes, assocVars, getVars>>

\* faulty variant: the Result of verify_caller is dropped, not propagated
VerifyCallerUnchecked ==
    /\ pc = "verify"
    /\ verified' = verify_caller(config, strict, current_caller)
    /\ pc' = AfterVerify(cmd, config)
    /\ UNCHANGED <<envVars, session, disk, config, read_result, sent, writes, outcome,
                   assocVars, getVars>>

\* verify_caller(&config)?
VerifyCaller ==
    /\ pc = "verify"
    /\ LET v == verify_caller(config, strict, current_caller) IN
        /\ verified' = v
        /\ IF v.ok
           THEN /\ pc' = AfterVerify(cmd, config)
                /\ UNCHANGED outcome
           ELSE Finish(v.err)
    /\ UNCHANGED <<envVars, session, disk, config, read_result, sent, writes, assocVars, getVars>>

\* configure: prompt_for_confirmation()? when strict-caller and no callers
ConfigurePrompt ==
    /\ pc = "prompt"
    /\ \E confirmed \in BOOLEAN :
        IF confirmed
        THEN pc' = "session" /\ UNCHANGED outcome
        ELSE Finish("IoError")
    /\ UNCHANGED <<envVars, session, disk, config, read_result, verified, sent, writes,
                   assocVars, getVars>>

----------------------------------------------------------------------------
(* start_session / exchange_keys *)

AfterSession(c) ==
    CASE c = "configure" -> "associate_new"
      [] c = "lock" -> "lock"
      [] c = "generate-password" -> "generate_password"
      [] c = "store" -> "store_check"
      [] OTHER -> "associated_databases"

\* replies to ChangePublicKeysRequest::send: a response with the host's public
\* key, a response without it, or an Err
KeyReplies == {"public_key", "no_public_key", "error"}

\* cpr_resp.get_public_key()
get_public_key(reply) == IF reply = "public_key" THEN Some("host_pubkey") ELSE None

\* let (_, client_id) = nacl_nonce()
ClientIds == {"client_id"}

\* faulty variant: a failed exchange is tried once more
StartSessionRetries ==
    /\ pc = "session"
    /\ Send("change-public-keys", FALSE)
    /\ \E id \in ClientIds, reply \in KeyReplies :
        /\ session' = [exchanges |-> session.exchanges + 1,
                       client_id |-> Some(id),
                       host_pubkey |-> get_public_key(reply)]
        /\ CASE reply = "public_key" -> pc' = AfterSession(cmd) /\ UNCHANGED outcome
             [] session.exchanges = 0 -> UNCHANGED <<pc, outcome>>
             [] reply = "no_public_key" -> Finish("KeyExchangeError")
             [] OTHER -> Finish("TransportError")
    /\ UNCHANGED <<envVars, disk, config, read_result, verified, writes, assocVars, getVars>>

\* start_session: a temporary client id, then exchange_keys(..)?
StartSession ==
    /\ pc = "session"
    /\ Send("change-public-keys", FALSE)
    /\ \E id \in ClientIds, reply \in KeyReplies :
        /\ session' = [exchanges |-> session.exchanges + 1,
                       client_id |-> Some(id),
                       host_pubkey |-> get_public_key(reply)]
        /\ CASE reply = "public_key" -> pc' = AfterSession(cmd) /\ UNCHANGED outcome
             [] reply = "no_public_key" -> Finish("KeyExchangeError")
             [] OTHER -> Finish("TransportError")
    /\ UNCHANGED <<envVars, disk, config, read_result, verified, writes, assocVars, getVars>>

----------------------------------------------------------------------------
(* associated_databases: the filter closure run for each configured database *)

\* replies to TestAssociateRequest::send: Ok with the success field true,
\* false or absent; Err with the database-locked KeePassError, or another Err
TAReplies == {"Ok_true", "Ok_false", "Ok_none", "Err_locked", "Err_other"}

max_retries == unwrap(unlock_options).max_retries

\* faulty variant: one counter for the whole call, the next database starts
\* with what the last one had when its last step began
InitialRetriesLeftOver ==
    IF is_some(unlock_options)
    THEN (IF idx = 0 THEN max_retries ELSE remain_retries)
    ELSE 0

\* let mut remain_retries = unlock_options.map_or_else(|| 0, |v| v.max_retries)
InitialRetries == IF is_some(unlock_options) THEN max_retries ELSE 0

\* faulty variant: TestAssociate always asks KeePassXC to prompt for unlock
TriggerUnlockAlways == TRUE

\* taso_req.send(client_id, unlock_options.is_some())
TriggerUnlock == is_some(unlock_options)

\* database_locked: Ok => false; Err => is_database_locked() of a KeePassError
database_locked(reply) == reply = "Err_locked"

\* faulty variant: a locked database counts as associated
SuccessAfterLockedCounts(reply, prev) ==
    IF reply \in {"Ok_true", "Ok_false", "Ok_none"} THEN reply = "Ok_true"
    ELSE reply = "Err_locked" \/ prev

\* if let Ok(..) = taso_resp { success = resp.success.map_or(false, ..) }
SuccessAfter(reply, prev) ==
    IF reply \in {"Ok_true", "Ok_false", "Ok_none"} THEN reply = "Ok_true" ELSE prev

\* if success || !database_locked || unlock_options.is_none() { break; }
BreakAfterTestAssociate(s, locked) == s \/ ~locked \/ is_none(unlock_options)

\* faulty variant: the unlimited sentinel forgotten
WhileConditionNoSentinel(remain) == remain > 0

\* while remain_retries > 0 || unlock_options.max_retries == 0
WhileCondition(remain) == remain > 0 \/ max_retries = 0

\* faulty variant: the unlimited sentinel tested the wrong way round
AfterFailedProbeBackwards(remain) == IF max_retries = 0 THEN remain - 1 ELSE remain

\* if unlock_options.max_retries != 0 { remain_retries -= 1; }
AfterFailedProbe(remain) == IF max_retries # 0 THEN remain - 1 ELSE remain

\* if remain_retries == 0 && unlock_options.max_retries != 0 { break; }
StillLocked(remain) == remain = 0 /\ max_retries # 0

\* the database the closure is running for
CurrentDb == get_databases(config)[idx].id

\* if databases.is_empty() { Err(..) } else { Ok(databases) }
Return(dbs) ==
    /\ assoc_result' = IF Len(dbs) = 0 THEN "Err" ELSE "Ok"
    /\ pc' = "associated"

\* faulty variant: the first database that fails ends the whole collection
FilterReturnsFailFast(s) ==
    IF ~s
    THEN /\ authenticated' = <<>>
         /\ success' = s
         /\ UNCHANGED <<idx, remain_retries>>
         /\ Return(<<>>)
    ELSE /\ authenticated' = Append(authenticated, get_databases(config)[idx])
         /\ IF idx < Len(get_databases(config))
            THEN /\ idx' = idx + 1
                 /\ remain_retries' = InitialRetries
                 /\ success' = FALSE
                 /\ pc' = "test_associate"
                 /\ UNCHANGED assoc_result
            ELSE /\ UNCHANGED <<idx, remain_retries>>
                 /\ success' = s
                 /\ Return(authenticated')

\* the closure returns `success`: the database is kept or dropped, and the
\* iterator moves to the next database or the collection is complete
FilterReturns(s) ==
    LET kept == IF s THEN Append(authenticated, get_databases(config)[idx])
                ELSE authenticated
    IN  /\ authenticated' = kept
        /\ IF idx < Len(get_databases(config))
           THEN /\ idx' = idx + 1
                /\ remain_retries' = InitialRetries
                /\ success' = FALSE
                /\ pc' = "test_associate"
                /\ UNCHANGED assoc_result
           ELSE /\ UNCHANGED <<idx, remain_retries>>
                /\ success' = s
                /\ Return(kept)

\* the code after the while loop: break out of the outer loop or go round it
AfterWhile(remain, s) ==
    IF StillLocked(remain)
    THEN /\ FilterReturns(s)
    ELSE /\ pc' = "test_associate"
         /\ remain_retries' = remain
         /\ success' = s
         /\ UNCHANGED <<idx, authenticated, assoc_result>>

\* faulty variant: the first probe after a TestAssociate is sent without sleeping
EnterWhileProbeFirst(remain, s) ==
    IF WhileCondition(remain)
    THEN /\ pc' = IF pc = "test_associate" THEN "probe" ELSE "sleep"
         /\ remain_retries' = remain
         /\ success' = s
         /\ UNCHANGED <<idx, authenticated, assoc_result>>
    ELSE AfterWhile(remain, s)

\* the while loop is entered (sleep next) or skipped
EnterWhile(remain, s) ==
    IF WhileCondition(remain)
    THEN /\ pc' = "sleep"
         /\ remain_retries' = remain
         /\ success' = s
         /\ UNCHANGED <<idx, authenticated, assoc_result>>
    ELSE AfterWhile(remain, s)

\* entry of associated_databases: config.get_databases()?.iter().filter(..)
AssociatedDatabases ==
    /\ pc = "associated_databases"
    /\ IF Len(get_databases(config)) = 0
       THEN /\ Return(<<>>)
            /\ UNCHANGED <<idx, remain_retries, success, authenticated>>
       ELSE /\ idx' = 1
            /\ remain_retries' = InitialRetries
            /\ success' = FALSE
            /\ pc' = "test_associate"
            /\ UNCHANGED <<authenticated, assoc_result>>
    /\ UNCHANGED <<envVars, session, disk, config, read_result, verified, sent, writes, outcome,
                   taCount, lastTA, probeLog, sleepCount, lastEvent, getVars>>

\* one TestAssociate and the code up to the next sleep, TestAssociate or return
TestAssociate ==
    /\ pc = "test_associate"
    /\ Send("test-associate", TriggerUnlock)
    /\ \E reply \in TAReplies :
        LET s == SuccessAfter(reply, success) IN
        /\ taCount' = [taCount EXCEPT ![CurrentDb] = @ + 1]
        /\ lastTA' = [lastTA EXCEPT ![CurrentDb] = reply]
        /\ lastEvent' = [lastEvent EXCEPT ![CurrentDb] = "test_associate"]
        /\ IF BreakAfterTestAssociate(s, database_locked(reply))
           THEN FilterReturns(s)
           ELSE EnterWhile(remain_retries, s)
    /\ UNCHANGED <<envVars, session, disk, config, read_result, verified, writes, outcome,
                   probeLog, sleepCount, getVars>>

\* thread::sleep(Duration::from_millis(interval))
Sleep ==
    /\ pc = "sleep"
    /\ Len(probeLog[CurrentDb]) < MaxPolls
    /\ sleepCount' = [sleepCount EXCEPT ![CurrentDb] = @ + 1]
    /\ lastEvent' = [lastEvent EXCEPT ![CurrentDb] = "sleep"]
    /\ pc' = "probe"
    /\ UNCHANGED <<envVars, session, disk, config, read_result, verified, sent, writes,
                   outcome, idx, remain_retries, success, authenticated,
                   assoc_result, taCount, lastTA, probeLog, getVars>>

\* faulty variant: a successful probe is taken as the database being authenticated
ProbeTrusted ==
    /\ pc = "probe"
    /\ Send("get-databasehash", FALSE)
    /\ \E reply \in {"ok", "fail"} :
        /\ probeLog' = [probeLog EXCEPT ![CurrentDb] = Append(@, reply)]
        /\ lastEvent' = [lastEvent EXCEPT ![CurrentDb] = "probe_" \o reply]
        /\ IF reply = "ok"
           THEN FilterReturns(TRUE)
           ELSE EnterWhile(AfterFailedProbe(remain_retries), success)
    /\ UNCHANGED <<envVars, session, disk, config, read_result, verified, writes, outcome,
                   taCount, lastTA, sleepCount, getVars>>

\* one GetDatabaseHash probe and the code up to the next sleep, TestAssociate
\* or return
Probe ==
    /\ pc = "probe"
    /\ Send("get-databasehash", FALSE)
    /\ \E reply \in {"ok", "fail"} :
        /\ probeLog' = [probeLog EXCEPT ![CurrentDb] = Append(@, reply)]
        /\ lastEvent' = [lastEvent EXCEPT ![CurrentDb] = "probe_" \o reply]
        /\ IF reply = "ok"
           THEN AfterWhile(remain_retries, success)
           ELSE EnterWhile(AfterFailedProbe(remain_retries), success)
    /\ UNCHANGED <<envVars, session, disk, config, read_result, verified, writes, outcome,
                   taCount, lastTA, sleepCount, getVars>>

\* the history of a finished associated_databases call is dropped when the
\* command goes on; its result stays
ForgetAssociation ==
    /\ idx' = 0
    /\ remain_retries' = 0
    /\ success' = FALSE
    /\ taCount' = ZeroPerDb
    /\ lastTA' = [d \in DbIds |-> "none"]
    /\ probeLog' = [d \in DbIds |-> <<>>]
    /\ sleepCount' = ZeroPerDb
    /\ lastEvent' = [d \in DbIds |-> "none"]
    /\ UNCHANGED <<authenticated, assoc_result>>

\* what the command does with the Result of associated_databases: get, totp
\* and groups apply `?`; store_login turns an Err of get_logins_for into
\* "no existing logins found"
AfterAssociated(c, ok) ==
    CASE c = "groups" -> IF ok THEN "get_groups" ELSE "done"
      [] c = "store" -> IF ok THEN "get_logins" ELSE "store_new"
      [] OTHER -> IF ok THEN "get_logins" ELSE "done"

Associated ==
    /\ pc = "associated"
    /\ pc' = AfterAssociated(cmd, assoc_result = "Ok")
    /\ outcome' = IF pc' = "done" THEN "NoAssociatedDatabaseError" ELSE outcome
    /\ ForgetAssociation
    /\ UNCHANGED <<envVars, session, disk, config, read_result, verified, sent, writes,
                   getVars>>

----------------------------------------------------------------------------
(* lock_database, generate_password, get_groups *)

\* replies to a request whose response is checked: Ok, a response that
\* reports failure, or an Err from send
Replies == {"ok", "rejected", "error"}

ReplyOutcome(reply) ==
    CASE reply = "ok" -> "Ok"
      [] reply = "rejected" -> "OperationRejected"
      [] OTHER -> "ProtocolError"

LockDatabase ==
    /\ pc = "lock"
    /\ Send("lock-database", FALSE)
    /\ \E reply \in Replies : Finish(ReplyOutcome(reply))
    /\ UNCHANGED <<envVars, session, disk, config, read_result, verified, writes, assocVars, getVars>>

GeneratePassword ==
    /\ pc = "generate_password"
    /\ Send("generate-password", FALSE)
    /\ \E reply \in {"ok", "error"} : Finish(ReplyOutcome(reply))
    /\ UNCHANGED <<envVars, session, disk, config, read_result, verified, writes, assocVars, getVars>>

GetGroups ==
    /\ pc = "get_groups"
    /\ Send("get-database-groups", FALSE)
    /\ \E reply \in {"ok", "error"} : Finish(ReplyOutcome(reply))
    /\ UNCHANGED <<envVars, session, disk, config, read_result, verified, writes, assocVars,
                   getVars>>

----------------------------------------------------------------------------
(* configure and caller: the commands that write the configuration *)

NewDatabase(group) == [id |-> "new", group |-> group]

\* Config::add_encryption: an empty profile registers nothing; a profile that
\* is registered already, or a new one while items are still encrypted under
\* another, is refused; so is one whose key source does not answer
add_encryption(cfg, profile, plugged) ==
    IF profile = "" THEN Ok(cfg)
    ELSE IF Contains(cfg.encryptions, profile) THEN Err("ConflictingProfileError")
    ELSE IF count_encryptions(cfg) > 0 /\ Protected(cfg)
    THEN Err("ConflictingProfileError")
    ELSE IF plugged # profile THEN Err("EncryptionKeyError")
    ELSE Ok([cfg EXCEPT !.encryptions = Append(@, profile)])

\* Config::add_database / add_caller: an item can be stored encrypted only
\* when a profile is registered
add_database(cfg, db, encrypt) ==
    IF encrypt /\ count_encryptions(cfg) = 0
    THEN Err("EncryptionKeyError")
    ELSE Ok([cfg EXCEPT !.databases =
                Append(@, IF encrypt THEN Sealed(db) ELSE db)])

add_caller(cfg, c, encrypt) ==
    IF encrypt /\ count_encryptions(cfg) = 0
    THEN Err("EncryptionKeyError")
    ELSE Ok([cfg EXCEPT !.callers =
                Append(@, IF encrypt THEN Sealed(c) ELSE c)])

clear_callers(cfg) == [cfg EXCEPT !.callers = <<>>]

\* Config::encrypt_databases / encrypt_callers / decrypt_databases /
\* decrypt_callers / clear_encryptions: a section is sealed or opened with the
\* key that a registered profile resolves from the plugged token
encrypt_databases(cfg, plugged) ==
    IF ~Contains(cfg.encryptions, plugged) THEN Err("EncryptionKeyError")
    ELSE Ok([cfg EXCEPT !.databases = SealAll(@)])

encrypt_callers(cfg, plugged) ==
    IF ~Contains(cfg.encryptions, plugged) THEN Err("EncryptionKeyError")
    ELSE Ok([cfg EXCEPT !.callers = SealAll(@)])

decrypt_databases(cfg, plugged) ==
    IF count_encrypted_databases(cfg) = 0 THEN Ok(cfg)
    ELSE IF ~Contains(cfg.encryptions, plugged) THEN Err("DecryptionFailedError")
    ELSE Ok([cfg EXCEPT !.databases = OpenAll(@)])

decrypt_callers(cfg, plugged) ==
    IF count_encrypted_callers(cfg) = 0 THEN Ok(cfg)
    ELSE IF ~Contains(cfg.encryptions, plugged) THEN Err("DecryptionFailedError")
    ELSE Ok([cfg EXCEPT !.callers = OpenAll(@)])

clear_encryptions(cfg) == [cfg EXCEPT !.encryptions = <<>>]

\* Caller::from_current_caller
from_current_caller(cur, no_uid, canonicalize) ==
    [path |-> IF canonicalize THEN Canonical(cur.path) ELSE cur.path,
     uid |-> IF no_uid THEN {} ELSE {cur.uid},
     gid |-> IF no_uid THEN {} ELSE {cur.gid},
     canonicalize |-> canonicalize]

\* faulty variant: the error of add_encryption is dropped, not propagated
AddProfileUnchecked(cfg, encrypt, confirmed, key) ==
    IF is_none(encrypt) THEN Ok(cfg)
    ELSE IF count_encryptions(cfg) > 0 /\ unwrap(encrypt) # "" /\ ~confirmed
    THEN Err("IoError")
    ELSE LET r == add_encryption(cfg, unwrap(encrypt), key)
         IN  IF r.ok THEN r ELSE Ok(cfg)

\* if let Some(encryption) = .. { handle_secondary_encryption(..)?;
\* config_file.add_encryption(encryption)?; } in configure and encrypt
AddProfile(cfg, encrypt, confirmed, key) ==
    IF is_none(encrypt) THEN Ok(cfg)
    ELSE IF count_encryptions(cfg) > 0 /\ unwrap(encrypt) # "" /\ ~confirmed
    THEN Err("IoError")
    ELSE add_encryption(cfg, unwrap(encrypt), key)

\* the same in caller add and caller me, which do not prompt
AddCallerProfile(cfg, encrypt, key) ==
    IF is_none(encrypt) THEN Ok(cfg)
    ELSE add_encryption(cfg, unwrap(encrypt), key)

\* Config::write_to: the file is replaced as a whole, or the write fails and
\* the file stays as it was
write_to(cfg) == [state |-> "ok", content |-> cfg]

\* configure: add_encryption(..)?, then add_database(..)?
AddDatabase(cfg, db, encrypt, confirmed, key) ==
    LET r == AddProfile(cfg, encrypt, confirmed, key)
    IN  IF r.ok THEN add_database(r.val, db, is_some(encrypt)) ELSE r

\* caller add, caller me: add_encryption(..)?, then add_caller(..)?
AddCaller(cfg, c, encrypt, key) ==
    LET r == AddCallerProfile(cfg, encrypt, key)
    IN  IF r.ok THEN add_caller(r.val, c, is_some(encrypt)) ELSE r

\* encrypt: add_encryption(..)?, encrypt_databases()?, encrypt_callers()?
EncryptAll(cfg, encrypt, confirmed, key) ==
    LET r1 == AddProfile(cfg, encrypt, confirmed, key)
        r2 == IF r1.ok THEN encrypt_databases(r1.val, key) ELSE r1
    IN  IF r2.ok THEN encrypt_callers(r2.val, key) ELSE r2

\* faulty variant: decrypt leaves the profiles registered
ClearIfDecryptedKeeps(cfg) == cfg

\* the profiles are dropped once nothing is left encrypted
ClearIfDecrypted(cfg) ==
    IF count_encrypted_databases(cfg) = 0 /\ count_encrypted_callers(cfg) = 0
    THEN clear_encryptions(cfg)
    ELSE cfg

\* faulty variant: the profiles are dropped as soon as the databases are
\* decrypted, the callers are left as they are
DecryptAllDatabasesOnly(cfg, key) ==
    LET r1 == decrypt_databases(cfg, key)
    IN  IF r1.ok THEN Ok(clear_encryptions(r1.val)) ELSE r1

\* decrypt: decrypt_databases()?, decrypt_callers()?, clear_encryptions()
DecryptAll(cfg, key) ==
    LET r1 == decrypt_databases(cfg, key)
        r2 == IF r1.ok THEN decrypt_callers(r1.val, key) ELSE r1
    IN  IF r2.ok THEN Ok(ClearIfDecrypted(r2.val)) ELSE r2

\* the command goes on to write_to with the changed Config, or ends with the
\* error of the step that failed
SaveOrFail(r) ==
    IF r.ok
    THEN /\ config' = r.val
         /\ pc' = "write"
         /\ UNCHANGED outcome
    ELSE /\ Finish(r.err)
         /\ UNCHANGED config

GroupArgs == {"", "Git"}

\* AssociateRequest, then the check of args.group
Associate ==
    /\ pc = "associate_new"
    /\ Send("associate", FALSE)
    /\ \E reply \in {"id", "no_id", "error"}, group \in GroupArgs :
        CASE reply = "error" -> Finish("ProtocolError")
          [] reply = "no_id" -> Finish("AssociationFailed")
          [] OTHER ->
                IF group = ""
                THEN Finish("EmptyGroupName")
                ELSE pc' = "create_group" /\ UNCHANGED outcome
    /\ UNCHANGED <<envVars, session, disk, config, read_result, verified, writes, assocVars, getVars>>

\* CreateNewGroupRequest, then add_encryption(..)? and add_database(..)?
CreateNewGroup ==
    /\ pc = "create_group"
    /\ Send("create-new-group", FALSE)
    /\ \E reply \in {"ok", "error"}, group \in GroupArgs \ {""},
          confirmed \in BOOLEAN, key \in Tokens :
        IF reply = "ok"
        THEN SaveOrFail(AddDatabase(config, NewDatabase(group), encrypt_arg, confirmed, key))
        ELSE /\ Finish("ProtocolError")
             /\ UNCHANGED config
    /\ UNCHANGED <<envVars, session, disk, read_result, verified, writes, assocVars, getVars>>

CallerArgs == {[path |-> "/usr/bin/git", uid |-> {}, gid |-> {}, canonicalize |-> FALSE]}

\* faulty variant: the file is saved before the caller is added, and again after
CallerAddSavesFirst ==
    /\ pc = "caller"
    /\ disk' = write_to(config)
    /\ writes' = writes + 1
    /\ \E c \in CallerArgs, key \in Tokens :
        SaveOrFail(AddCaller(config, c, encrypt_arg, key))
    /\ UNCHANGED <<envVars, session, read_result, verified, sent, assocVars, getVars>>

\* caller add
CallerAdd ==
    /\ pc = "caller"
    /\ \E c \in CallerArgs, key \in Tokens :
        SaveOrFail(AddCaller(config, c, encrypt_arg, key))
    /\ UNCHANGED <<envVars, session, disk, read_result, verified, sent, writes,
                   assocVars, getVars>>

\* caller me: CurrentCaller::new()?, prompt_for_confirmation()?
CallerMe ==
    /\ pc = "caller"
    /\ IF is_none(current_caller)
       THEN Finish("CurrentCallerError") /\ UNCHANGED config
       ELSE \E no_uid \in BOOLEAN, canonicalize \in BOOLEAN, confirmed \in BOOLEAN,
               key \in Tokens :
              IF confirmed
              THEN SaveOrFail(AddCaller(config,
                        from_current_caller(unwrap(current_caller), no_uid,
                                            canonicalize),
                        encrypt_arg, key))
              ELSE Finish("IoError") /\ UNCHANGED config
    /\ UNCHANGED <<envVars, session, disk, read_result, verified, sent, writes, assocVars, getVars>>

\* caller clear
CallerClear ==
    /\ pc = "caller"
    /\ config' = clear_callers(config)
    /\ pc' = "write"
    /\ UNCHANGED <<envVars, session, disk, outcome, read_result, verified, sent, writes,
                   assocVars, getVars>>

\* encrypt: nothing to do, or add_encryption(..)?, encrypt_databases()?,
\* encrypt_callers()?
Encrypt ==
    /\ pc = "encrypt"
    /\ \E confirmed \in BOOLEAN, key \in Tokens :
        IF /\ count_databases(config) - count_encrypted_databases(config) = 0
           /\ count_callers(config) - count_encrypted_callers(config) = 0
           /\ (is_none(encrypt_arg) \/ unwrap(encrypt_arg) = "")
        THEN Finish("Ok") /\ UNCHANGED config
        ELSE SaveOrFail(EncryptAll(config, encrypt_arg, confirmed, key))
    /\ UNCHANGED <<envVars, session, disk, read_result, verified, sent, writes,
                   assocVars, getVars>>

\* decrypt: nothing to do, or decrypt_databases()?, decrypt_callers()?,
\* clear_encryptions()
Decrypt ==
    /\ pc = "decrypt"
    /\ \E key \in Tokens :
        IF /\ count_encrypted_databases(config) = 0
           /\ count_encrypted_callers(config) = 0
        THEN Finish("Ok") /\ UNCHANGED config
        ELSE SaveOrFail(DecryptAll(config, key))
    /\ UNCHANGED <<envVars, session, disk, read_result, verified, sent, writes,
                   assocVars, getVars>>

\* config_file.write_to(&config_path)?
WriteConfig ==
    /\ pc = "write"
    /\ \E written \in BOOLEAN :
        IF written
        THEN /\ disk' = write_to(config)
             /\ writes' = writes + 1
             /\ Finish("Ok")
        ELSE /\ Finish("IoError")
             /\ UNCHANGED <<disk, writes>>
    /\ UNCHANGED <<envVars, session, config, read_result, verified, sent, assocVars, getVars>>

----------------------------------------------------------------------------
(* get_logins_for and its filters *)

\* .filter(|e| e.expired.is_none() || !e.expired.unwrap().0)
not_expired(e) == is_none(e.expired) \/ ~unwrap(e.expired)

filter_kph(e) ==
    IF is_some(e.string_fields)
    THEN ~Contains(unwrap(e.string_fields), KphFalse)
    ELSE TRUE

database_groups(dbs) == [i \in 1..Len(dbs) |-> dbs[i].group]

\* faulty variant: the git-groups toggle is not looked at
filter_group_IgnoresToggle(e, groups, git_groups, dbs) ==
    IF is_some(e.group)
    THEN groups = <<>> \/ Contains(groups, unwrap(e.group))
    ELSE TRUE

filter_group(e, groups, git_groups, dbs) ==
    IF is_some(e.group)
    THEN IF ~git_groups
         THEN groups = <<>> \/ Contains(groups, unwrap(e.group))
         ELSE \/ Contains(groups, unwrap(e.group))
              \/ Contains(database_groups(dbs), unwrap(e.group))
    ELSE TRUE

\* the entries get_logins_for returns for a GetLogins response
Filtered(entries, a, dbs) ==
    LET live == SelectSeq(entries, not_expired)
        kph == IF a.kph THEN SelectSeq(live, filter_kph) ELSE live
    IN  SelectSeq(kph, LAMBDA e : filter_group(e, a.groups, a.git_groups, dbs))

\* .filter(|entry| entry.login == *username)
ByUsername(entries, username) == SelectSeq(entries, LAMBDA e : e.login = username)

Uuids(entries) == [i \in 1..Len(entries) |-> entries[i].uuid]

\* GitCredentialMessage::from_stdin()?, get_url()?
GitRequestsFor(c) ==
    IF c = "store" THEN GitRequests
    ELSE {r \in GitRequests : is_none(r.password)}

ReadStdin ==
    /\ pc = "stdin"
    /\ \/ /\ \E r \in GitRequestsFor(cmd) : git_req' = r
          /\ pc' = "session"
          /\ UNCHANGED outcome
       \/ /\ Finish("IoError")
          /\ UNCHANGED git_req
    /\ UNCHANGED <<envVars, session, disk, config, read_result, verified, sent, writes,
                   assocVars, args, gl_resp, login_entries, sl_req, output, gt_resp>>

\* GetLoginsRequest in get_logins_for, and what get_logins / store_login do
\* with the Result
GetLogins ==
    /\ pc = "get_logins"
    /\ Send("get-logins", FALSE)
    /\ \/ /\ IF cmd = "store"
             THEN pc' = "store_new" /\ UNCHANGED outcome
             ELSE Finish("ProtocolError")
          /\ UNCHANGED <<args, gl_resp, login_entries>>
       \/ \E a \in ArgInputs(cmd), entries \in EntryLists :
            LET found == Filtered(entries, a, authenticated)
                named == ByUsername(found, unwrap(git_req.username))
            IN  /\ args' = a
                /\ gl_resp' = entries
                /\ UNCHANGED outcome
                /\ IF cmd = "store"
                   THEN /\ login_entries' = named
                        /\ pc' = IF Len(named) = 0 THEN "store_new"
                                 ELSE "store_existing"
                   ELSE /\ login_entries' = found
                        /\ pc' = "output"
    /\ UNCHANGED <<envVars, session, disk, config, read_result, verified, writes,
                   assocVars, git_req, sl_req, output, gt_resp>>

----------------------------------------------------------------------------
(* get_logins: get and totp *)

\* replies to GetTotpRequest: success with a code, success with an empty
\* code, a response without success, an Err from send
TotpReplies == {"code", "empty", "failure", "error"}

\* faulty variant: the check that the code is not empty is missing
get_totp_for_AcceptsEmpty(reply) ==
    CASE reply \in {"code", "empty"} -> Ok("code")
      [] reply = "error" -> Err("ProtocolError")
      [] OTHER -> Err("TotpUnavailableError")

\* get_totp_for: gt_req.send(..)?, then success and a non-empty code, or Err
get_totp_for(reply) ==
    CASE reply = "code" -> Ok("code")
      [] reply = "error" -> Err("ProtocolError")
      [] OTHER -> Err("TotpUnavailableError")

Printed(uuids, userpass, totp) ==
    Some([uuids |-> uuids, username |-> userpass, password |-> userpass,
          totp |-> totp])

\* args.raw(), PasswordOnly: the raw response is written out
GetRawPassword ==
    /\ pc = "output"
    /\ args.raw /\ args.mode = "PasswordOnly"
    /\ output' = Printed(Uuids(gl_resp), TRUE, FALSE)
    /\ Finish("Ok")
    /\ UNCHANGED <<envVars, session, disk, config, read_result, verified, sent, writes,
                   assocVars, git_req, args, gl_resp, login_entries, sl_req, gt_resp>>

\* args.raw(), TotpOnly: one GetTotp per entry, failures dropped
GetRawTotp ==
    /\ pc = "output"
    /\ args.raw /\ args.mode = "TotpOnly"
    /\ IF Len(login_entries) = 0 THEN UNCHANGED sent ELSE Send("get-totp", FALSE)
    /\ \E replies \in [1..Len(login_entries) -> TotpReplies] :
        LET got == SelectSeq([i \in 1..Len(login_entries) |->
                                 [uuid |-> login_entries[i].uuid, reply |-> replies[i]]],
                             LAMBDA r : get_totp_for(r.reply).ok)
        IN /\ output' = Printed(Uuids(got), FALSE, TRUE)
           /\ gt_resp' = [i \in 1..Len(login_entries) |-> replies[i]]
    /\ Finish("Ok")
    /\ UNCHANGED <<envVars, session, disk, config, read_result, verified, writes,
                   assocVars, git_req, args, gl_resp, login_entries, sl_req>>

\* the entries left after the optional narrowing by the request's username
Narrowed(entries, username) ==
    IF Len(entries) > 1 /\ is_some(username)
    THEN IF Len(ByUsername(entries, unwrap(username))) # 0
         THEN ByUsername(entries, unwrap(username))
         ELSE entries
    ELSE entries

\* not raw: the first matching entry is chosen
SelectLogin ==
    /\ pc = "output"
    /\ ~args.raw
    /\ IF Len(login_entries) = 0
       THEN /\ Finish("NoMatchingLogins")
            /\ UNCHANGED <<login_entries, output>>
       ELSE LET login == Head(Narrowed(login_entries, git_req.username)) IN
            /\ login_entries' = <<login>>
            /\ IF args.mode = "PasswordOnly"
               THEN /\ output' = Printed(<<login.uuid>>, TRUE, FALSE)
                    /\ Finish("Ok")
               ELSE /\ pc' = "get_totp"
                    /\ UNCHANGED <<output, outcome>>
    /\ UNCHANGED <<envVars, session, disk, config, read_result, verified, sent, writes,
                   assocVars, git_req, args, gl_resp, sl_req, gt_resp>>

\* match args.get_mode(): PasswordAndTotp ignores a failed get_totp_for,
\* TotpOnly applies `?`
GetTotp ==
    /\ pc = "get_totp"
    /\ Send("get-totp", FALSE)
    /\ \E reply \in TotpReplies :
        LET totp == get_totp_for(reply)
            login == Head(login_entries)
        IN  /\ gt_resp' = <<reply>>
            /\ IF args.mode = "PasswordAndTotp"
               THEN /\ output' = Printed(<<login.uuid>>, TRUE, totp.ok)
                    /\ Finish("Ok")
               ELSE IF totp.ok
                    THEN /\ output' = Printed(<<login.uuid>>, FALSE, TRUE)
                         /\ Finish("Ok")
                    ELSE /\ Finish(totp.err)
                         /\ UNCHANGED output
    /\ UNCHANGED <<envVars, session, disk, config, read_result, verified, writes,
                   assocVars, git_req, args, gl_resp, login_entries, sl_req>>

----------------------------------------------------------------------------
(* store_login *)

\* if git_req.username.is_none() { Err } ; if git_req.password.is_none() { Err }
StoreCheck ==
    /\ pc = "store_check"
    /\ IF is_none(git_req.username) THEN Finish("UsernameMissing")
       ELSE IF is_none(git_req.password) THEN Finish("PasswordMissing")
       ELSE pc' = "associated_databases" /\ UNCHANGED outcome
    /\ UNCHANGED <<envVars, session, disk, config, read_result, verified, sent, writes,
                   assocVars, getVars>>

SetLoginRequest(db, group, uuid) == [database |-> db.id, group |-> group, uuid |-> uuid]

\* faulty variant: an unchanged login is sent to KeePassXC all the same
StoreExistingAlwaysUpdates ==
    /\ pc = "store_existing"
    /\ LET login_entry == Head(login_entries)
           databases == get_databases(config)
       IN  IF FALSE
           THEN Finish("Ok") /\ UNCHANGED sl_req
           ELSE IF Len(databases) > 1
           THEN Finish("Panic_unimplemented") /\ UNCHANGED sl_req
           ELSE /\ sl_req' = Some(SetLoginRequest(databases[1], databases[1].group,
                                                  Some(login_entry.uuid)))
                /\ pc' = "set_login"
                /\ UNCHANGED outcome
    /\ UNCHANGED <<envVars, session, disk, config, read_result, verified, sent, writes,
                   assocVars, git_req, args, gl_resp, login_entries, output, gt_resp>>

\* faulty variant: with several databases the first one is taken
StoreExistingGuessesFirst ==
    /\ pc = "store_existing"
    /\ LET login_entry == Head(login_entries)
           databases == get_databases(config)
       IN  IF /\ login_entry.login = unwrap(git_req.username)
              /\ login_entry.password = unwrap(git_req.password)
           THEN Finish("Ok") /\ UNCHANGED sl_req
           ELSE IF FALSE
           THEN Finish("Panic_unimplemented") /\ UNCHANGED sl_req
           ELSE /\ sl_req' = Some(SetLoginRequest(databases[1], databases[1].group,
                                                  Some(login_entry.uuid)))
                /\ pc' = "set_login"
                /\ UNCHANGED outcome
    /\ UNCHANGED <<envVars, session, disk, config, read_result, verified, sent, writes,
                   assocVars, git_req, args, gl_resp, login_entries, output, gt_resp>>

\* if let Ok(login_entries) = login_entries { .. }
StoreExisting ==
    /\ pc = "store_existing"
    /\ LET login_entry == Head(login_entries)
           databases == get_databases(config)
       IN  IF /\ login_entry.login = unwrap(git_req.username)
              /\ login_entry.password = unwrap(git_req.password)
           THEN Finish("Ok") /\ UNCHANGED sl_req
           ELSE IF Len(databases) > 1
           THEN Finish("Panic_unimplemented") /\ UNCHANGED sl_req
           ELSE /\ sl_req' = Some(SetLoginRequest(databases[1], databases[1].group,
                                                  Some(login_entry.uuid)))
                /\ pc' = "set_login"
                /\ UNCHANGED outcome
    /\ UNCHANGED <<envVars, session, disk, config, read_result, verified, sent, writes,
                   assocVars, git_req, args, gl_resp, login_entries, output, gt_resp>>

CreateInArgs == {None, Some("Git")}

\* else { "No existing logins found, gonna create a new one" .. }
StoreNew ==
    /\ pc = "store_new"
    /\ LET databases == get_databases(config) IN
       IF Len(databases) = 0
       THEN Finish("Panic_unwrap_none") /\ UNCHANGED <<sl_req, sent>>
       ELSE \E create_in \in CreateInArgs :
              IF is_none(create_in)
              THEN /\ sl_req' = Some(SetLoginRequest(databases[1], databases[1].group, None))
                   /\ pc' = "set_login"
                   /\ UNCHANGED <<outcome, sent>>
              ELSE /\ Send("get-database-groups", FALSE)
                   /\ \E reply \in {"found", "not_found", "error"} :
                        CASE reply = "found" ->
                                /\ sl_req' = Some(SetLoginRequest(databases[1],
                                                     unwrap(create_in), None))
                                /\ pc' = "set_login"
                                /\ UNCHANGED outcome
                          [] reply = "not_found" ->
                                Finish("GroupNotFound") /\ UNCHANGED sl_req
                          [] OTHER ->
                                Finish("ProtocolError") /\ UNCHANGED sl_req
    /\ UNCHANGED <<envVars, session, disk, config, read_result, verified, writes,
                   assocVars, git_req, args, gl_resp, login_entries, output, gt_resp>>

\* sl_req.send(..)?, sl_resp.check(..)
SetLogin ==
    /\ pc = "set_login"
    /\ Send("set-login", FALSE)
    /\ \E reply \in Replies : Finish(ReplyOutcome(reply))
    /\ UNCHANGED <<envVars, session, disk, config, read_result, verified, writes,
                   assocVars, getVars>>

----------------------------------------------------------------------------

Next ==
    \/ ReadOrNew
    \/ ReadOrFail
    \/ VerifyCaller
    \/ ConfigurePrompt
    \/ StartSession
    \/ AssociatedDatabases
    \/ TestAssociate
    \/ Sleep
    \/ Probe
    \/ Associated
    \/ LockDatabase
    \/ GeneratePassword
    \/ GetGroups
    \/ ReadStdin
    \/ GetLogins
    \/ GetRawPassword
    \/ GetRawTotp
    \/ SelectLogin
    \/ GetTotp
    \/ StoreCheck
    \/ StoreExisting
    \/ StoreNew
    \/ SetLogin
    \/ Associate
    \/ CreateNewGroup
    \/ CallerAdd
    \/ CallerMe
    \/ CallerClear
    \/ Encrypt
    \/ Decrypt
    \/ WriteConfig

Spec == Init /\ [][Next]_vars

----------------------------------------------------------------------------
(* verify_caller on its own, over every configuration and caller identity *)

VerifyInputs ==
    { ConfigOf(d, c) : d \in DatabaseLists, c \in AllCallerLists }

InitVerify ==
    /\ strict \in BOOLEAN
    /\ cmd = "verify_caller"
    /\ unlock_options = None
    /\ current_caller \in {None} \cup {Some(i) : i \in Identities}
    /\ disk = [state |-> "absent", content |-> ConfigNew]
    /\ disk0 = disk
    /\ pc = "verify"
    /\ race = NoRace
    /\ encrypt_arg = None
    /\ token = "none"
    /\ history = NoHistory
    /\ InitRun
    /\ \E c \in VerifyInputs : config = c

\* the call is all that runs
NextVerify == VerifyCaller

SpecVerify == InitVerify /\ [][NextVerify]_vars

----------------------------------------------------------------------------
(* Two invocations of configuration-writing commands on the same file.  Each
   runs the steps of caller add or configure on its own Config: read existing
   or create new, verify_caller, change the Config in memory, write_to.
   Nothing orders the steps of one against the steps of the other. *)

Procs == {1, 2}

RaceCommands == {"caller add", "configure"}

\* what invocation p adds: the caller given to caller add, or the database
\* configure got from its Associate
RaceCaller(p) ==
    [path |-> IF p = 1 THEN "/opt/one/git" ELSE "/opt/two/git",
     uid |-> {}, gid |-> {}, canonicalize |-> FALSE]
RaceDatabase(p) == [id |-> IF p = 1 THEN "new1" ELSE "new2", group |-> "Git"]

RaceDisks ==
    { [state |-> "absent", content |-> ConfigNew],
      [state |-> "ok", content |-> ConfigOf(SubSeq(DatabasePool, 1, 1), <<>>)],
      [state |-> "ok", content |-> ConfigOf(SubSeq(DatabasePool, 1, 1), <<GitCaller>>)] }

invocationVars == <<strict, cmd, unlock_options, current_caller, disk0, pc, outcome,
                    config, read_result, verified, sent, writes, session, assocVars,
                    getVars, encrypt_arg, token, history>>

InitRace ==
    /\ strict \in BOOLEAN
    /\ cmd = "race"
    /\ unlock_options = None
    /\ current_caller = Some(GitIdentity)
    /\ disk \in RaceDisks
    /\ disk0 = disk
    /\ config = ConfigNew
    /\ pc = "race"
    /\ encrypt_arg = None
    /\ token = "none"
    /\ history = NoHistory
    /\ InitRun
    /\ \E c \in [Procs -> RaceCommands] :
        race = [proc |-> [p \in Procs |->
                            [cmd |-> c[p], pc |-> "read", config |-> ConfigNew,
                             seen |-> 0, outcome |-> "running"]],
                writers |-> <<>>]

\* invocation p ends with outcome o
RaceFinish(p, o) ==
    race' = [race EXCEPT !.proc[p].pc = "done", !.proc[p].outcome = o]

\* read existing or create new config; verify_caller(&config_file)? when read
RaceRead(p) ==
    /\ race.proc[p].pc = "read"
    /\ LET r == read_from(disk, token)
           v == verify_caller(r.val, strict, current_caller)
       IN  IF ~r.ok
           THEN race' = [race EXCEPT !.proc[p].pc = "change",
                                     !.proc[p].config = ConfigNew,
                                     !.proc[p].seen = Len(race.writers)]
           ELSE IF v.ok
           THEN race' = [race EXCEPT !.proc[p].pc = "change",
                                     !.proc[p].config = r.val,
                                     !.proc[p].seen = Len(race.writers)]
           ELSE RaceFinish(p, v.err)
    /\ UNCHANGED <<invocationVars, disk>>

\* caller add: add_caller(..)?; configure: the requests, then add_database(..)?
RaceChange(p) ==
    /\ race.proc[p].pc = "change"
    /\ IF race.proc[p].cmd = "caller add"
       THEN race' = [race EXCEPT
                        !.proc[p].pc = "write",
                        !.proc[p].config = add_caller(@, RaceCaller(p), FALSE).val]
       ELSE \E associated \in BOOLEAN :
              IF associated
              THEN race' = [race EXCEPT
                              !.proc[p].pc = "write",
                              !.proc[p].config =
                                  add_database(@, RaceDatabase(p), FALSE).val]
              ELSE RaceFinish(p, "ProtocolError")
    /\ UNCHANGED <<invocationVars, disk>>

\* faulty variant: only the section the command changed is written into the
\* file, the rest of the file is left as it is
RaceWritePatches(p) ==
    /\ race.proc[p].pc = "write"
    /\ \E written \in BOOLEAN :
        IF written
        THEN /\ disk' = [state |-> "ok",
                         content |->
                            IF race.proc[p].cmd = "caller add"
                            THEN [disk.content EXCEPT
                                     !.callers = race.proc[p].config.callers]
                            ELSE [disk.content EXCEPT
                                     !.databases = race.proc[p].config.databases]]
             /\ race' = [race EXCEPT !.proc[p].pc = "done",
                                     !.proc[p].outcome = "Ok",
                                     !.writers = Append(@, p)]
        ELSE /\ RaceFinish(p, "IoError")
             /\ UNCHANGED disk
    /\ UNCHANGED invocationVars

\* config_file.write_to(config_path)
RaceWrite(p) ==
    /\ race.proc[p].pc = "write"
    /\ \E written \in BOOLEAN :
        IF written
        THEN /\ disk' = write_to(race.proc[p].config)
             /\ race' = [race EXCEPT !.proc[p].pc = "done",
                                     !.proc[p].outcome = "Ok",
                                     !.writers = Append(@, p)]
        ELSE /\ RaceFinish(p, "IoError")
             /\ UNCHANGED disk
    /\ UNCHANGED invocationVars

NextRace == \E p \in Procs : RaceRead(p) \/ RaceChange(p) \/ RaceWrite(p)

SpecRace == InitRace /\ [][NextRace]_vars

----------------------------------------------------------------------------
(* Invocations of encrypt and decrypt, one after the other, on one file *)

StoreCommands == {"encrypt", "decrypt"}

\* the files the first invocation can find: plaintext, or protected by "p1"
StoreInputs ==
    { ConfigOf(d, c) : d \in DatabaseLists, c \in { <<>>, <<GitCaller>> } }
    \cup EncryptedInputs

InitStore ==
    /\ strict = FALSE
    /\ cmd \in StoreCommands
    /\ unlock_options = None
    /\ current_caller = Some(GitIdentity)
    /\ disk \in { [state |-> "ok", content |-> c] : c \in StoreInputs }
    /\ disk0 = disk
    /\ config = ConfigNew
    /\ pc = "read"
    /\ race = NoRace
    /\ encrypt_arg \in (IF cmd = "encrypt" THEN EncryptArgs ELSE {None})
    /\ token \in Tokens
    /\ history = NoHistory
    /\ InitRun

\* what is remembered of an invocation that ended
Ended ==
    [cmd |-> cmd, encrypt_arg |-> encrypt_arg, outcome |-> outcome,
     before |-> disk0.content, after |-> disk.content]

\* the process has exited; the program is started again on the same file
NextInvocation ==
    /\ pc = "done"
    /\ Len(history) < MaxInvocations
    /\ history' = Append(history, Ended)
    /\ cmd' \in StoreCommands
    /\ encrypt_arg' \in (IF cmd' = "encrypt" THEN EncryptArgs ELSE {None})
    /\ token' \in Tokens
    /\ disk0' = disk
    /\ config' = ConfigNew
    /\ pc' = "read"
    /\ outcome' = "running"
    /\ read_result' = "none"
    /\ verified' = NotCalled
    /\ sent' = {}
    /\ writes' = 0
    /\ UNCHANGED <<strict, unlock_options, current_caller, race, disk, session,
                   assocVars, getVars>>

NextStore ==
    \/ ReadOrFail
    \/ VerifyCaller
    \/ Encrypt
    \/ Decrypt
    \/ WriteConfig
    \/ NextInvocation

SpecStore == InitStore /\ [][NextStore]_vars

----------------------------------------------------------------------------
(* Properties *)

\* associated_databases is running or has just returned: its history is intact
InAssociation == pc \in {"test_associate", "sleep", "probe", "associated"}

ConfiguredIds == {get_databases(config)[i].id : i \in 1..Len(get_databases(config))}
AuthenticatedIds == {authenticated[i].id : i \in 1..Len(authenticated)}

\* the filter closure has returned for database d
Decided(d) ==
    /\ InAssociation
    /\ \E i \in 1..Len(get_databases(config)) :
        /\ get_databases(config)[i].id = d
        /\ (i < idx \/ pc = "associated")

\* requests that only make sense with an authenticated database
FurtherRequests == { <<"get-logins", FALSE>>, <<"get-totp", FALSE>>,
                     <<"set-login", FALSE>>, <<"get-database-groups", FALSE>> }

(* C1: in get, totp, store and groups, when associated_databases ends with no
   authenticated database the invocation fails and sends no further request:
   none of GetLogins, GetTotp, SetLogin, GetDatabaseGroups. *)
C1_NoRequestWithoutDatabase ==
    assoc_result = "Err" => sent \cap FurtherRequests = {}

(* C2, as claimed: no request is sent unless verify_caller returned Ok earlier
   in the invocation; when verify_caller fails no request is sent and the
   configuration file is not written. *)
C2_VerifiedBeforeAnyRequest ==
    /\ sent # {} => verified.ok
    /\ (verified # NotCalled /\ ~verified.ok) => (sent = {} /\ writes = 0 /\ disk = disk0)

(* C2, amended: no request is sent unless verify_caller returned Ok earlier, or
   the command is configure and read_from failed, in which case verify_caller
   is not called at all and configure goes on with a new empty Config; when
   verify_caller fails no request is sent and the file is not written. *)
C2_VerifiedOrNewConfig ==
    /\ sent # {} =>
          \/ verified.ok
          \/ (cmd = "configure" /\ read_result = "Err" /\ verified = NotCalled)
    /\ (verified # NotCalled /\ ~verified.ok) => (sent = {} /\ writes = 0 /\ disk = disk0)

C2_Witness ==
    /\ verified.ok
    /\ count_callers(config) > 0
    /\ <<"get-logins", FALSE>> \in sent

(* C3: when read_from fails on an existing configuration file the invocation
   fails and the file is never overwritten (write_to is not called). *)
C3_FailedReadNeverOverwrites ==
    (read_result = "Err" /\ disk0.state = "unreadable") =>
        /\ writes = 0
        /\ disk = disk0
        /\ outcome # "Ok"

(* C4: a database is in the authenticated result only if the most recent
   TestAssociate sent for it returned success, and a successful
   GetDatabaseHash probe is always followed by a new TestAssociate for the
   same database before that database is accepted or rejected. *)
C4_OnlyConfirmedByTestAssociate ==
    InAssociation =>
        \A d \in ConfiguredIds :
            /\ d \in AuthenticatedIds => lastTA[d] = "Ok_true"
            /\ Decided(d) => lastEvent[d] # "probe_ok"
            /\ lastEvent[d] = "probe_ok" => (pc = "test_associate" /\ CurrentDb = d)

C4_Witness ==
    /\ pc = "associated"
    /\ "db1" \in AuthenticatedIds
    /\ Contains(probeLog["db1"], "ok")
    /\ taCount["db1"] = 2

\* the scenario of C5: max_retries = 3, interval = 10, the first two probes
\* fail, the third succeeds and the TestAssociate that follows succeeds
LockedTwiceThenUnlocked(d) ==
    /\ InAssociation
    /\ is_some(unlock_options)
    /\ max_retries = 3
    /\ unwrap(unlock_options).interval = 10
    /\ probeLog[d] = <<"fail", "fail", "ok">>
    /\ taCount[d] = 2
    /\ lastTA[d] = "Ok_true"

(* C5, as claimed: in that scenario association of the database succeeds and
   exactly 2 sleeps occur. *)
C5_TwoSleeps ==
    \A d \in DbIds :
        LockedTwiceThenUnlocked(d) => (d \in AuthenticatedIds /\ sleepCount[d] = 2)

(* C5, amended: in that scenario association of the database succeeds and
   exactly 3 sleeps occur, one before each of the 3 probes. *)
C5_ThreeSleeps ==
    \A d \in DbIds :
        LockedTwiceThenUnlocked(d) => (d \in AuthenticatedIds /\ sleepCount[d] = 3)

C5_Witness == LockedTwiceThenUnlocked("db1") /\ Decided("db1")

\* every reply about database d so far said locked: the TestAssociate failed
\* with the locked error and no probe succeeded
PermanentlyLocked(d) ==
    /\ InAssociation
    /\ is_some(unlock_options)
    /\ taCount[d] >= 1
    /\ lastTA[d] = "Err_locked"
    /\ ~Contains(probeLog[d], "ok")

(* C6: with max_retries = 1 and a permanently locked database, association of
   that database fails after exactly 1 poll (one sleep, then one probe) and no
   second TestAssociate is sent. *)
C6_OnePollThenFail ==
    \A d \in DbIds :
        (PermanentlyLocked(d) /\ max_retries = 1) =>
            /\ taCount[d] = 1
            /\ Len(probeLog[d]) <= 1
            /\ sleepCount[d] <= 1
            /\ d \notin AuthenticatedIds
            /\ Decided(d) <=> probeLog[d] = <<"fail">>
            /\ Decided(d) => sleepCount[d] = 1

C6_Witness ==
    /\ PermanentlyLocked("db1")
    /\ max_retries = 1
    /\ Decided("db1")
    /\ probeLog["db1"] = <<"fail">>

(* C7: with max_retries = 0 (unlimited) the remaining-retry counter is never
   decremented and polling never ends by exhaustion: while the database stays
   locked and the probes fail, associated_databases keeps sleeping and probing
   and never reports that database as failed. *)
C7_UnlimitedNeverExhausts ==
    (InAssociation /\ is_some(unlock_options) /\ max_retries = 0) =>
        /\ remain_retries = 0
        /\ \A d \in DbIds :
              PermanentlyLocked(d) =>
                  /\ ~Decided(d)
                  /\ pc \in {"sleep", "probe"}
                  /\ CurrentDb = d

C7_Witness ==
    /\ is_some(unlock_options)
    /\ max_retries = 0
    /\ PermanentlyLocked("db1")
    /\ probeLog["db1"] = <<"fail", "fail", "fail">>
    /\ pc = "sleep"

(* C8: associated_databases returns exactly the configured databases whose
   TestAssociate finally succeeded, in configuration order; a database that
   fails is only excluded, every configured database is still attempted, and
   the call succeeds whenever at least one database authenticated. *)
C8_ExactlyTheAuthenticated ==
    pc = "associated" =>
        /\ authenticated =
              SelectSeq(get_databases(config), LAMBDA db : lastTA[db.id] = "Ok_true")
        /\ \A d \in ConfiguredIds : taCount[d] >= 1
        /\ assoc_result = "Ok" <=> Len(authenticated) >= 1

C8_Witness ==
    /\ pc = "associated"
    /\ Len(get_databases(config)) = 2
    /\ AuthenticatedIds = {"db2"}
    /\ lastTA["db1"] = "Err_other"
    /\ assoc_result = "Ok"

(* C9: verify_caller with zero callers and zero databases succeeds under both
   policies; with at least one database and zero callers it succeeds under the
   relaxed policy and fails under the strict policy. *)
C9_NoCallers ==
    (verified # NotCalled /\ count_callers(config) = 0) =>
        /\ count_databases(config) = 0 => verified.ok
        /\ count_databases(config) >= 1 => (verified.ok <=> ~strict)

C9_Witness ==
    /\ verified # NotCalled
    /\ count_callers(config) = 0
    /\ count_databases(config) >= 1
    /\ strict
    /\ ~verified.ok

\* some configured caller entry matches the current process
SomeCallerMatches ==
    /\ is_some(current_caller)
    /\ \E i \in 1..Len(get_callers(config)) :
          matches(unwrap(current_caller), get_callers(config)[i])

(* C10: with at least one caller configured, verify_caller succeeds, returning
   the current caller, if and only if some configured caller entry matches the
   current process; with no matching entry it fails with the caller-not-allowed
   error; the same under the strict and the relaxed policy. *)
C10_MatchDecides ==
    (verified # NotCalled /\ count_callers(config) >= 1) =>
        /\ verified.ok <=> SomeCallerMatches
        /\ verified.ok => verified.val = current_caller
        /\ (is_some(current_caller) /\ ~SomeCallerMatches) =>
              verified.err = "CallerNotAllowed"

C10_Witness ==
    /\ verified # NotCalled
    /\ is_some(current_caller)
    /\ Len(get_callers(config)) = 2
    /\ ~matches(unwrap(current_caller), get_callers(config)[1])
    /\ matches(unwrap(current_caller), get_callers(config)[2])
    /\ verified.ok
    /\ ~strict

\* the commands that rewrite the configuration file
WritingCommands == {"configure", "encrypt", "decrypt", "caller"}

(* C11: in configure, encrypt, decrypt and caller, write_to is called at most
   once and only as the last step: as long as it has not been called, and so
   whenever an earlier step failed or the process is stopped before it, the
   configuration file on disk is as the invocation found it. *)
C11_WriteOnceAndLast ==
    cmd \in WritingCommands =>
        /\ writes <= 1
        /\ writes = 0 => disk = disk0
        /\ writes = 1 => (pc = "done" /\ outcome = "Ok" /\ disk = write_to(config))
        /\ (pc = "done" /\ outcome # "Ok") => disk = disk0

C11_Witness ==
    /\ cmd = "configure"
    /\ <<"create-new-group", FALSE>> \in sent
    /\ pc = "done"
    /\ outcome = "ConflictingProfileError"
    /\ disk0.state = "ok"
    /\ disk = disk0

\* what invocation p alone makes of the file the two invocations found
RaceAlone(p) ==
    LET found == IF read_from(disk0, token).ok THEN read_from(disk0, token).val
                 ELSE ConfigNew
    IN  IF race.proc[p].cmd = "caller add"
        THEN add_caller(found, RaceCaller(p), FALSE).val
        ELSE add_database(found, RaceDatabase(p), FALSE).val

\* nothing of what invocation p added is in the file
RaceLost(p) ==
    /\ ~Contains(disk.content.callers, RaceCaller(p))
    /\ ~Contains(disk.content.databases, RaceDatabase(p))

(* C12: two concurrent configuration-writing invocations share no lock.  The
   file is at every moment the file they found or the complete Config of the
   invocation that wrote last, never a mixture; and when both read before
   either wrote, the file ends as the last writer alone would have made it and
   what the other invocation added is lost. *)
C12_LastWriterWins ==
    /\ Len(race.writers) = 0 => disk = disk0
    /\ Len(race.writers) > 0 =>
          disk = write_to(race.proc[race.writers[Len(race.writers)]].config)
    /\ (Len(race.writers) = 2 /\ \A p \in Procs : race.proc[p].seen = 0) =>
          /\ disk = write_to(RaceAlone(race.writers[2]))
          /\ RaceLost(race.writers[1])

C12_Witness ==
    /\ race.writers = <<2, 1>>
    /\ \A p \in Procs : race.proc[p].seen = 0
    /\ race.proc[1].cmd = "caller add"
    /\ race.proc[2].cmd = "configure"
    /\ disk0.state = "ok"
    /\ RaceLost(2)

\* store_login found existing entries with the request's username and has
\* dealt with the first of them
StoreFoundExisting ==
    /\ cmd = "store"
    /\ Len(login_entries) > 0
    /\ pc # "store_existing"

(* C13: store_login against an existing entry (the first entry found with the
   request's username) whose login and password both equal the request's
   username and password is a no-op: no SetLogin request is built or sent and
   the command returns success. *)
C13_UnchangedIsNoOp ==
    ( /\ StoreFoundExisting
      /\ Head(login_entries).login = unwrap(git_req.username)
      /\ Head(login_entries).password = unwrap(git_req.password) ) =>
        /\ pc = "done"
        /\ outcome = "Ok"
        /\ sl_req = None
        /\ <<"set-login", FALSE>> \notin sent

C13_Witness ==
    /\ StoreFoundExisting
    /\ Head(login_entries).password = unwrap(git_req.password)
    /\ Len(get_databases(config)) = 1
    /\ outcome = "Ok"

(* C14: in store_login, when an existing entry with the request's username is
   found with a different password and more than one database is configured,
   the command fails at once as not implemented and sends no SetLogin request:
   it never picks a database for the entry. *)
C14_NotImplementedFastFail ==
    ( /\ StoreFoundExisting
      /\ Head(login_entries).password # unwrap(git_req.password)
      /\ Len(get_databases(config)) > 1 ) =>
        /\ pc = "done"
        /\ outcome = "Panic_unimplemented"
        /\ sl_req = None
        /\ <<"set-login", FALSE>> \notin sent

C14_Witness ==
    /\ StoreFoundExisting
    /\ Head(login_entries).password # unwrap(git_req.password)
    /\ Len(get_databases(config)) = 2
    /\ Len(authenticated) = 1
    /\ outcome = "Panic_unimplemented"

\* the entries of the GetLogins response that carry expired = true
ExpiredUuids ==
    { gl_resp[i].uuid : i \in { j \in 1..Len(gl_resp) : ~not_expired(gl_resp[j]) } }

(* C15: a login entry that the counterpart returns with expired = true is
   always excluded: for every filter setting and every output mode of get and
   totp, and in store's lookup of existing entries, no such entry is among the
   entries in use, is written to the output, or is the entry a SetLogin
   request updates. *)
C15_ExpiredNeverOutput ==
    /\ \A i \in 1..Len(login_entries) : not_expired(login_entries[i])
    /\ is_some(output) =>
          \A i \in 1..Len(unwrap(output).uuids) :
              unwrap(output).uuids[i] \notin ExpiredUuids
    /\ (is_some(sl_req) /\ is_some(unwrap(sl_req).uuid)) =>
          unwrap(unwrap(sl_req).uuid) \notin ExpiredUuids

\* the entry carries the string field `KPH: git` with value `false`
HasKphFalse(e) ==
    /\ is_some(e.string_fields)
    /\ \E i \in 1..Len(unwrap(e.string_fields)) : unwrap(e.string_fields)[i] = KphFalse

KphFalseUuids ==
    { gl_resp[i].uuid : i \in { j \in 1..Len(gl_resp) : HasKphFalse(gl_resp[j]) } }

(* C16: a login entry carrying the string field `KPH: git` with value `false`
   is excluded from the get-logins result (the entries in use and what is
   written to the output) when the KPH filter is enabled, and retained when
   the KPH filter is disabled, provided no other filter removes it. *)
C16_KphFalseExcluded ==
    /\ args.kph =>
          /\ \A i \in 1..Len(login_entries) : ~HasKphFalse(login_entries[i])
          /\ is_some(output) =>
                \A i \in 1..Len(unwrap(output).uuids) :
                    unwrap(output).uuids[i] \notin KphFalseUuids
    /\ (~args.kph /\ cmd \in {"get", "totp"} /\ pc = "output") =>
          \A i \in 1..Len(gl_resp) :
              ( /\ HasKphFalse(gl_resp[i])
                /\ not_expired(gl_resp[i])
                /\ filter_group(gl_resp[i], args.groups, args.git_groups,
                                authenticated) ) =>
                  Contains(login_entries, gl_resp[i])

\* get_logins_for has returned the filtered entries to get_logins, or to
\* store_login, which found some with the request's username
GotLogins ==
    \/ cmd \in {"get", "totp"} /\ pc = "output"
    \/ cmd = "store" /\ pc = "store_existing"

\* the entry is left by the filters other than the group filter
BeforeGroupFilter(e) ==
    /\ not_expired(e)
    /\ args.kph => ~HasKphFalse(e)
    /\ cmd = "store" => e.login = unwrap(git_req.username)

(* C17, as claimed: group filtering with an empty group allow-list retains all
   entries regardless of their group, for every value of the git-groups toggle
   and every set of configured databases. *)
C17_EmptyAllowListKeepsAll ==
    (GotLogins /\ args.groups = <<>>) =>
        \A i \in 1..Len(gl_resp) :
            BeforeGroupFilter(gl_resp[i]) => Contains(login_entries, gl_resp[i])

(* C17, amended: with an empty group allow-list, group filtering retains all
   entries regardless of their group when the git-groups toggle is off; with
   the toggle on it retains exactly the entries without group information and
   those whose group is the group of one of the authenticated databases. *)
C17_EmptyAllowListAndToggle ==
    (GotLogins /\ args.groups = <<>>) =>
        \A i \in 1..Len(gl_resp) :
            BeforeGroupFilter(gl_resp[i]) =>
                ( Contains(login_entries, gl_resp[i]) <=>
                    \/ ~args.git_groups
                    \/ is_none(gl_resp[i].group)
                    \/ \E d \in 1..Len(authenticated) :
                          authenticated[d].group = unwrap(gl_resp[i].group) )

C17_Witness ==
    /\ GotLogins
    /\ args.groups = <<>>
    /\ args.git_groups
    /\ Len(gl_resp) = 2
    /\ Len(login_entries) = 1
    /\ login_entries[1].group = Some("Git")
    /\ \E i \in 1..2 : gl_resp[i].group = Some("Other")
    /\ Len(get_databases(config)) = 2

\* the counterpart reported failure, or success with an empty code, for some
\* GetTotp request of this invocation
TotpUnavailable ==
    \E i \in 1..Len(gt_resp) : gt_resp[i] \in {"failure", "empty"}

\* the entries whose GetTotp request returned a code, in order
WithCode ==
    SelectSeq([i \in 1..Len(gt_resp) |-> [uuid |-> login_entries[i].uuid,
                                          reply |-> gt_resp[i]]],
              LAMBDA r : r.reply = "code")

\* combined mode: a failed TOTP request is ignored, username and password are
\* output without a TOTP code
CombinedIgnoresTotpFailure ==
    (args.mode = "PasswordAndTotp" /\ TotpUnavailable) =>
        /\ pc = "done"
        /\ outcome = "Ok"
        /\ output = Printed(Uuids(login_entries), TRUE, FALSE)

(* C18, as claimed: a TOTP request fails as unavailable when the counterpart
   reports failure or success with an empty code; in TOTP-only mode that
   failure is fatal (the command returns an error), in combined password+TOTP
   mode it is ignored (the command succeeds and outputs username and password
   without a TOTP code). *)
C18_FatalInTotpOnlyMode ==
    /\ (args.mode = "TotpOnly" /\ TotpUnavailable) =>
          /\ pc = "done"
          /\ outcome = "TotpUnavailableError"
          /\ output = None
    /\ CombinedIgnoresTotpFailure

(* C18, amended: the same, except that TOTP-only mode with --raw is not fatal
   either: there one request is made per entry, a failed one is logged and its
   entry left out, and the command succeeds with the codes it did get. *)
C18_FatalInTotpOnlyModeWithoutRaw ==
    /\ (args.mode = "TotpOnly" /\ ~args.raw /\ TotpUnavailable) =>
          /\ pc = "done"
          /\ outcome = "TotpUnavailableError"
          /\ output = None
    /\ (args.mode = "TotpOnly" /\ args.raw /\ TotpUnavailable) =>
          /\ pc = "done"
          /\ outcome = "Ok"
          /\ output = Printed(Uuids(WithCode), FALSE, TRUE)
    /\ CombinedIgnoresTotpFailure

C18_Witness ==
    /\ args.mode = "TotpOnly"
    /\ ~args.raw
    /\ gt_resp = <<"empty">>
    /\ outcome = "TotpUnavailableError"

(* C19: the allow-trigger-unlock flag is set on a request only when the caller
   opted into waiting: TestAssociate is sent with the flag true if and only if
   unlock options were given, and every other request is always sent with the
   flag false. *)
C19_TriggerOnlyWhenWaiting ==
    \A r \in sent :
        IF r[1] = "test-associate"
        THEN r[2] <=> is_some(unlock_options)
        ELSE ~r[2]

C19_Witness ==
    /\ {<<"test-associate", TRUE>>, <<"get-databasehash", FALSE>>,
        <<"get-logins", FALSE>>, <<"get-totp", FALSE>>} \subseteq sent
    /\ is_some(unlock_options)

KeyExchange == <<"change-public-keys", FALSE>>

(* C20: each invocation performs at most one key exchange, and it precedes
   every encrypted request of that invocation, all sent under the client
   identifier generated for that exchange; if the exchange fails or returns
   no host public key, the invocation fails without retrying the exchange and
   without sending any further request. *)
C20_OneKeyExchangeFirst ==
    /\ session.exchanges <= 1
    /\ sent # {} =>
          /\ KeyExchange \in sent
          /\ session.exchanges = 1
          /\ is_some(session.client_id)
    /\ sent \ {KeyExchange} # {} => is_some(session.host_pubkey)
    /\ (session.exchanges >= 1 /\ is_none(session.host_pubkey)) =>
          /\ pc = "done"
          /\ outcome \in {"KeyExchangeError", "TransportError"}
          /\ sent = {KeyExchange}

C20_Witness ==
    /\ session.exchanges = 1
    /\ is_none(session.host_pubkey)
    /\ outcome = "KeyExchangeError"
    /\ cmd = "get"

\* unlock was requested with a bounded number of retries
BoundedMode == is_some(unlock_options) /\ max_retries # 0

\* the failed GetDatabaseHash probes sent for database d
FailedProbes(d) == Len(SelectSeq(probeLog[d], LAMBDA r : r = "fail"))

(* C25: with unlock requested and a bounded max_retries = n > 0,
   associated_databases sends at most n GetDatabaseHash probes and performs at
   most n sleeps per database, whatever the counterpart replies, also when
   its probes succeed while TestAssociate keeps reporting the database
   locked. *)
C25_AtMostNPolls ==
    (InAssociation /\ BoundedMode) =>
        \A d \in DbIds :
            /\ Len(probeLog[d]) <= max_retries
            /\ sleepCount[d] <= max_retries

(* C26: during association every GetDatabaseHash probe is directly preceded
   by one sleep and every sleep is directly followed by one probe: the sleeps
   of a database equal its probes, plus one while the probe that follows a
   sleep is still to be sent; a TestAssociate is never directly preceded by a
   sleep. *)
C26_SleepThenProbe ==
    InAssociation =>
        \A d \in DbIds :
            /\ sleepCount[d] =
                  Len(probeLog[d]) + (IF lastEvent[d] = "sleep" THEN 1 ELSE 0)
            /\ lastEvent[d] = "sleep" <=> (pc = "probe" /\ CurrentDb = d)
            /\ (pc = "test_associate" /\ CurrentDb = d) => lastEvent[d] # "sleep"

C26_Witness ==
    /\ pc = "probe"
    /\ CurrentDb = "db1"
    /\ sleepCount["db1"] = 2
    /\ probeLog["db1"] = <<"fail">>

(* C27: with no unlock options each configured database receives exactly one
   TestAssociate, no sleep and no GetDatabaseHash probe ever occurs, also when
   TestAssociate fails because the database is locked, and that database is
   excluded from the result. *)
C27_NoUnlockOneAttempt ==
    is_none(unlock_options) =>
        /\ <<"get-databasehash", FALSE>> \notin sent
        /\ pc \notin {"sleep", "probe"}
        /\ InAssociation =>
              \A d \in ConfiguredIds :
                  /\ sleepCount[d] = 0
                  /\ probeLog[d] = <<>>
                  /\ taCount[d] = (IF Decided(d) THEN 1 ELSE 0)
                  /\ lastTA[d] = "Err_locked" => d \notin AuthenticatedIds

C27_Witness ==
    /\ is_none(unlock_options)
    /\ pc = "associated"
    /\ Len(get_databases(config)) = 2
    /\ lastTA["db1"] = "Err_locked"
    /\ taCount["db1"] = 1
    /\ AuthenticatedIds = {"db2"}

(* C28: the retry budget is per database: the remaining-retry counter starts
   at max_retries for each configured database and only the failed probes of
   the database being polled are taken from it, so retries used for one
   database never reduce the probes available to a later one. *)
C28_BudgetPerDatabase ==
    (pc \in {"test_associate", "sleep", "probe"} /\ is_some(unlock_options)) =>
        /\ taCount[CurrentDb] = 0 => remain_retries = max_retries
        /\ remain_retries =
              max_retries - (IF max_retries # 0 THEN FailedProbes(CurrentDb) ELSE 0)

C28_Witness ==
    /\ pc = "test_associate"
    /\ is_some(unlock_options)
    /\ max_retries = 3
    /\ CurrentDb = "db2"
    /\ taCount["db2"] = 0
    /\ FailedProbes("db1") = 3
    /\ remain_retries = 3

\* a step inside one run of the filter closure, between two of its requests
\* or sleeps
InsideClosure ==
    /\ pc \in {"test_associate", "sleep", "probe"}
    /\ pc' \in {"test_associate", "sleep", "probe"}
    /\ idx' = idx

(* C29: the remaining-retry counter never underflows: it always lies between
   0 and max_retries, it is changed only by a decrement of exactly 1 after a
   failed GetDatabaseHash probe in bounded mode, and a probe is only sent in
   bounded mode while the counter is above 0. *)
C29_NoUnderflow ==
    /\ [](/\ 0 <= remain_retries
          /\ remain_retries <= (IF is_some(unlock_options) THEN max_retries ELSE 0)
          /\ (pc \in {"sleep", "probe"} /\ max_retries # 0) => remain_retries > 0)
    /\ [][(InsideClosure /\ remain_retries' # remain_retries) =>
              /\ pc = "probe"
              /\ BoundedMode
              /\ remain_retries > 0
              /\ remain_retries' = remain_retries - 1
              /\ probeLog'[CurrentDb] = Append(probeLog[CurrentDb], "fail")]_vars

C29_Witness ==
    /\ pc = "sleep"
    /\ BoundedMode
    /\ max_retries = 3
    /\ remain_retries = 1
    /\ probeLog["db1"] = <<"fail", "fail">>
    /\ CurrentDb = "db1"

\* configure or encrypt found the store encrypted under the registered
\* profiles and is asked to add a profile that is not one of them
AddsSecondProfile ==
    /\ cmd \in {"configure", "encrypt"}
    /\ read_result = "Ok"
    /\ count_encryptions(disk0.content) > 0
    /\ Protected(disk0.content)
    /\ is_some(encrypt_arg)
    /\ unwrap(encrypt_arg) # ""
    /\ ~Contains(disk0.content.encryptions, unwrap(encrypt_arg))

\* the command got as far as add_encryption
AddAttempted ==
    \/ cmd = "encrypt" /\ verified.ok
    \/ cmd = "configure" /\ <<"create-new-group", FALSE>> \in sent

(* C22: adding a second, different encryption profile while the store is
   encrypted under the first, without decrypting first, fails with
   ConflictingProfileError, and the command that attempted it does not write
   the file; the only other ways it ends are the failures of the steps before
   add_encryption (a prompt not confirmed, a failed CreateNewGroup). *)
C22_SecondProfileRefused ==
    AddsSecondProfile =>
        /\ writes = 0
        /\ disk = disk0
        /\ pc # "write"
        /\ config.encryptions = disk0.content.encryptions
        /\ (pc = "done" /\ AddAttempted) =>
              outcome \in {"ConflictingProfileError", "IoError", "ProtocolError"}

C22_Witness ==
    /\ AddsSecondProfile
    /\ cmd = "encrypt"
    /\ disk0.content.encryptions = <<"p1">>
    /\ encrypt_arg = Some("p2")
    /\ pc = "done"
    /\ outcome = "ConflictingProfileError"
    /\ disk = disk0

\* every profile of the file the invocation found is still registered in cfg
ProfilesKept(cfg) ==
    \A i \in 1..Len(disk0.content.encryptions) :
        Contains(cfg.encryptions, disk0.content.encryptions[i])

(* C24: the registered encryption profiles are cleared only once both
   sections report zero encrypted items: only decrypt drops them, after
   decrypt_databases and decrypt_callers, with the encrypted-database count
   and the encrypted-caller count both zero; as long as an item is still
   encrypted, in memory or in the file, the profiles are kept. *)
C24_ClearedOnlyWhenAllDecrypted ==
    (read_result = "Ok" /\ count_encryptions(disk0.content) > 0) =>
        /\ Protected(config) => ProfilesKept(config)
        /\ Protected(disk.content) => ProfilesKept(disk.content)
        /\ ~ProfilesKept(config) =>
              /\ cmd = "decrypt"
              /\ pc \in {"write", "done"}
              /\ count_encrypted_databases(config) = 0
              /\ count_encrypted_callers(config) = 0
              /\ count_encryptions(config) = 0

C24_Witness ==
    /\ cmd = "decrypt"
    /\ pc = "done"
    /\ outcome = "Ok"
    /\ count_encrypted_databases(disk0.content) = 1
    /\ count_encrypted_callers(disk0.content) = 1
    /\ count_encryptions(disk0.content) = 1
    /\ disk.content = ConfigOf(get_databases(disk0.content), get_callers(disk0.content))

\* invocation i of the history was an encrypt that ended well and invocation
\* i + 1 a decrypt that ended well
EncryptedThenDecrypted(i) ==
    /\ history[i].cmd = "encrypt"
    /\ history[i].outcome = "Ok"
    /\ history[i + 1].cmd = "decrypt"
    /\ history[i + 1].outcome = "Ok"

(* C21: for any configuration, encrypting the databases and callers with a
   profile and then decrypting them with the same profile, with a write and a
   re-read in between, gives back the same databases and the same callers in
   the same order, none of them encrypted. *)
C21_RoundTrip ==
    \A i \in 1..(Len(history) - 1) :
        EncryptedThenDecrypted(i) =>
            /\ get_databases(history[i + 1].after) = get_databases(history[i].before)
            /\ get_callers(history[i + 1].after) = get_callers(history[i].before)
            /\ history[i + 1].after.databases = get_databases(history[i].before)
            /\ history[i + 1].after.callers = get_callers(history[i].before)

C21_Witness ==
    /\ Len(history) = 2
    /\ EncryptedThenDecrypted(1)
    /\ history[1].before = ConfigOf(DatabasePool, <<GitCaller>>)
    /\ history[1].encrypt_arg = Some("p1")
    /\ history[1].after.databases = SealAll(DatabasePool)
    /\ history[1].after.callers = <<Sealed(GitCaller)>>
    /\ history[2].after = history[1].before

\* invocation i of the history decrypted a store that was encrypted under
\* registered profiles, and invocation i + 1 was an encrypt with a profile
\* that was not one of them
SecondProfileAfterDecrypt(i) ==
    /\ history[i].cmd = "decrypt"
    /\ history[i].outcome = "Ok"
    /\ Protected(history[i].before)
    /\ history[i + 1].cmd = "encrypt"
    /\ is_some(history[i + 1].encrypt_arg)
    /\ unwrap(history[i + 1].encrypt_arg) # ""
    /\ ~Contains(history[i].before.encryptions, unwrap(history[i + 1].encrypt_arg))

\* the running invocation is the one after invocation i and has called read_from
ReadAfter(i) == Len(history) = i /\ read_result # "none"

(* C23, as claimed: after a store encrypted under a first profile has been
   decrypted, adding a second, different profile succeeds, and from then on
   both the first and the second profile are registered and each of them
   alone unlocks the store on read. *)
C23_BothProfilesUnlock ==
    \A i \in 1..(Len(history) - 1) :
        SecondProfileAfterDecrypt(i) =>
            /\ history[i + 1].outcome # "ConflictingProfileError"
            /\ history[i + 1].outcome = "Ok" =>
                  /\ \A k \in 1..Len(history[i].before.encryptions) :
                        Contains(history[i + 1].after.encryptions,
                                 history[i].before.encryptions[k])
                  /\ Contains(history[i + 1].after.encryptions,
                              unwrap(history[i + 1].encrypt_arg))
                  /\ (ReadAfter(i + 1) /\ token # "none") => read_result = "Ok"

(* C23, amended: after a store encrypted under a first profile has been
   decrypted, which clears the registered profiles, adding a second, different
   profile succeeds, and from then on the second profile is the only one
   registered: it unlocks the store on read, the first no longer does. *)
C23_OnlySecondProfileUnlocks ==
    \A i \in 1..(Len(history) - 1) :
        SecondProfileAfterDecrypt(i) =>
            /\ history[i + 1].outcome \in {"Ok", "EncryptionKeyError", "IoError"}
            /\ history[i + 1].outcome = "Ok" =>
                  /\ history[i + 1].after.encryptions =
                        <<unwrap(history[i + 1].encrypt_arg)>>
                  /\ ReadAfter(i + 1) =>
                        (read_result = "Ok" <=>
                            \/ token = unwrap(history[i + 1].encrypt_arg)
                            \/ ~Protected(history[i + 1].after))

C23_Witness ==
    /\ Len(history) = 2
    /\ SecondProfileAfterDecrypt(1)
    /\ history[1].before.encryptions = <<"p1">>
    /\ history[2].encrypt_arg = Some("p2")
    /\ history[2].outcome = "Ok"
    /\ Protected(history[2].after)
    /\ token = "p2"
    /\ read_result = "Ok"

====
